---- MODULE Spec2Model ----
(***************************************************************************)
(* Model of src/client/transport/p2p.ts: the peer-to-peer transport of     *)
(* boardgame.io.  One Host transport ("h") and one Client transport ("c")  *)
(* talk through PeerJS peers and data connections.  P2PHost (the           *)
(* HostRouter) owns the registrations and the Master (the engine);         *)
(* P2PTransport owns the peer, the emit-path and the connection status.    *)
(*                                                                         *)
(* Every handler runs to completion (one JavaScript task is one step), so  *)
(* its effect is computed by threading a "world" record                    *)
(*   [tr, peers, hosts, conns, ev]                                         *)
(* through the operators below, in the order of the statements of the      *)
(* source.  The field ev is the trace of the handler: the emits, engine    *)
(* calls, client.send calls and clientCallback calls it made, and whether  *)
(* it ended by an exception.  The variable ev keeps the trace of the last  *)
(* step in the specifications that observe it (SpecHost, SpecLive: their   *)
(* initial states set ev.on); under Spec it stays as it starts, and the    *)
(* properties read the trace off the handler's result.  The field seen of  *)
(* ev keeps what has happened so far in the run.  The field late of ev     *)
(* says whether the run is one in which a Client's peer that is destroyed  *)
(* before the server gave it an id still emits 'open' afterwards           *)
(* (SpecLate).                                                             *)
(***************************************************************************)
EXTENDS Integers, Sequences, FiniteSets, TLC

VARIABLES tr, peers, hosts, conns, connects, ev

vars == <<tr, peers, hosts, conns, connects, ev>>

(***************************************************************************)
(* Bounds of the model.                                                    *)
(***************************************************************************)
\* Calls of connect() made over a run, those of the identity updates included.
MaxConnects == 1
\* Largest state version the engine reaches.
MaxState == 1
\* Messages in flight on the connections, both directions together.
MaxQueue == 1

(***************************************************************************)
(* Values.                                                                 *)
(***************************************************************************)
Transports == {"h", "c"}
MatchIDs == {"M1", "M2"}
PlayerIDs == {"0", "1"}
Credentials == {"a", "b"}
GameName == "g"

\* No peer: this.peer before the first connect() and after disconnect().
NoPeer == 0
\* The registration the Host makes for itself (no connection behind it).
Loopback == 0
\* The state version of a message that carries none.
NoState == -1
\* undefined, where a peer id is expected: no id ever is the empty string.
Undefined == ""

IsHost(t) == t = "h"

NoEmit == [kind |-> "none", id |-> 0]
HostEmit(h) == [kind |-> "host", id |-> h]
ConnEmit(k) == [kind |-> "conn", id |-> k]

\* type ClientAction: the tag and the positional arguments of the engine entry.
UpdateAction(stateID, matchID, playerID) ==
    [type |-> "update", stateID |-> stateID, matchID |-> matchID,
     playerID |-> playerID, credentials |-> ""]
ChatAction(matchID, credentials) ==
    [type |-> "chat", stateID |-> NoState, matchID |-> matchID,
     playerID |-> "", credentials |-> credentials]
SyncAction(matchID, playerID, credentials) ==
    [type |-> "sync", stateID |-> NoState, matchID |-> matchID,
     playerID |-> playerID, credentials |-> credentials]

Push(type, state) == [type |-> type, state |-> state]

EmptyEv == [on |-> FALSE, late |-> FALSE, op |-> "", arg |-> "", seen |-> {},
            emits |-> <<>>, calls |-> <<>>, sends |-> <<>>, applied |-> <<>>,
            thrown |-> FALSE]

World == [tr |-> tr, peers |-> peers, hosts |-> hosts, conns |-> conns,
          ev |-> [EmptyEv EXCEPT !.on = ev.on, !.late = ev.late]]

(***************************************************************************)
(* Transport base class and application.                                   *)
(***************************************************************************)
\* clientCallback(data): the application applies a push to its local state.
ClientCallback(w, t, data) ==
    [w EXCEPT !.tr[t].state = IF data.type = "chat" THEN @ ELSE data.state,
              !.ev.applied = Append(@, [t |-> t, data |-> data])]

SetConnectionStatus(w, t, b) == [w EXCEPT !.tr[t].isConnected = b]

(***************************************************************************)
(* PeerJS DataConnection.send: a connection that is not open sends         *)
(* nothing (it emits an 'error' event, which nothing here listens to).     *)
(***************************************************************************)
SendToClient(w, k, data) ==
    IF w.conns[k].hstate = "open"
    THEN [w EXCEPT !.conns[k].toClient = Append(@, data)]
    ELSE w

SendToHostQueued(w, k, data) == [w EXCEPT !.conns[k].toHost = Append(@, data)]

SendToHost(w, k, data) ==
    IF w.conns[k].cstate = "open"
    THEN [w EXCEPT !.conns[k].toHost = Append(@, data)]
    ELSE w

(***************************************************************************)
(* P2PHost.                                                                *)
(***************************************************************************)
\* client.send(data) of one registration.
ClientSend(w, h, reg, data) ==
    LET w1 == [w EXCEPT !.ev.sends = Append(@, [host |-> h, reg |-> reg.id])]
    IN  IF reg.throws THEN [w1 EXCEPT !.ev.thrown = TRUE]
        ELSE IF reg.id = Loopback
             THEN ClientCallback(w1, w1.hosts[h].owner, data)
             ELSE SendToClient(w1, reg.id, data)

\* for (const [client] of this.clients) ... client.send(data): in insertion
\* order; an exception thrown by one send leaves the loop.
RECURSIVE SendEach(_, _, _, _)
SendEach(w, h, regs, data) ==
    IF regs = <<>> \/ w.ev.thrown THEN w
    ELSE SendEach(ClientSend(w, h, Head(regs), data), h, Tail(regs), data)

SendTargetsAnyPlayer(clients, playerID) == clients

SendTargets(clients, playerID) ==
    SelectSeq(clients, LAMBDA c : c.playerID = playerID)

SendAllTargetsButFirst(clients) ==
    IF clients = <<>> THEN clients ELSE Tail(clients)

SendAllTargets(clients) == clients

\* send: ({ playerID, ...data }) => ...
MasterSend(w, h, playerID, data) ==
    SendEach(w, h, SendTargets(w.hosts[h].clients, playerID), data)

\* sendAll: (data) => ...
MasterSendAll(w, h, data) ==
    SendEach(w, h, SendAllTargets(w.hosts[h].clients), data)

Call(w, h, fn, arg) ==
    [w EXCEPT !.ev.calls = Append(@, [host |-> h, fn |-> fn, arg |-> arg])]

(***************************************************************************)
(* Master, the engine: opaque to the transport.  It keeps the match of     *)
(* its host (db.createMatch(this.matchID, ...)), answers a sync to the     *)
(* asking player, broadcasts the state after an accepted update and a      *)
(* chat message, and records the connectivity last reported per player.    *)
(***************************************************************************)
InitMaster == [state |-> 0, connected |-> [p \in PlayerIDs |-> FALSE]]

OnUpdate(w, h, a) ==
    LET w1 == Call(w, h, "onUpdate", a)
        m == w1.hosts[h].master
    IN  IF a.matchID = w1.hosts[h].matchID /\ a.stateID = m.state
        THEN MasterSendAll([w1 EXCEPT !.hosts[h].master.state = m.state + 1],
                           h, Push("update", m.state + 1))
        ELSE w1

OnChatMessage(w, h, a) ==
    MasterSendAll(Call(w, h, "onChatMessage", a), h, Push("chat", NoState))

OnSync(w, h, a) ==
    LET w1 == Call(w, h, "onSync", a)
    IN  IF a.matchID = w1.hosts[h].matchID
        THEN MasterSend(w1, h, a.playerID,
                        Push("sync", w1.hosts[h].master.state))
        ELSE w1

OnConnectionChange(w, h, matchID, playerID, isConnected) ==
    [Call(w, h, "onConnectionChange",
          [matchID |-> matchID, playerID |-> playerID,
           isConnected |-> isConnected])
     EXCEPT !.hosts[h].master.connected[playerID] = isConnected]

NewHost(t, matchID) ==
    [owner |-> t, matchID |-> matchID, clients |-> <<>>, master |-> InitMaster]

RemoveRegByPlayer(clients, reg) ==
    SelectSeq(clients, LAMBDA c : c.playerID # reg.playerID)

RemoveReg(clients, reg) == SelectSeq(clients, LAMBDA c : c.id # reg.id)

\* this.clients.set(client, client): a Map keeps the place of a key it has.
AddRegByPlayer(clients, reg) ==
    IF \E i \in 1..Len(clients) : clients[i].playerID = reg.playerID
    THEN clients
    ELSE Append(clients, reg)

AddReg(clients, reg) ==
    IF \E i \in 1..Len(clients) : clients[i].id = reg.id
    THEN clients
    ELSE Append(clients, reg)

RegisterClient(w, h, reg) ==
    OnConnectionChange([w EXCEPT !.hosts[h].clients = AddReg(@, reg)],
                       h, w.hosts[h].matchID, reg.playerID, TRUE)

UnregisterClient(w, h, reg) ==
    OnConnectionChange([w EXCEPT !.hosts[h].clients = RemoveReg(@, reg)],
                       h, w.hosts[h].matchID, reg.playerID, FALSE)

ProcessActionFallThrough(w, h, data) ==
    CASE data.type = "update" -> OnChatMessage(OnUpdate(w, h, data), h, data)
      [] data.type = "chat" -> OnChatMessage(w, h, data)
      [] data.type = "sync" -> OnSync(w, h, data)
      [] OTHER -> w

ProcessAction(w, h, data) ==
    CASE data.type = "update" -> OnUpdate(w, h, data)
      [] data.type = "chat" -> OnChatMessage(w, h, data)
      [] data.type = "sync" -> OnSync(w, h, data)
      [] OTHER -> w

(***************************************************************************)
(* P2PTransport.                                                           *)
(***************************************************************************)
NamespacedPeerIDNoGame(gameName, matchID) ==
    IF matchID # "" THEN "boardgameio-matchid-" \o matchID
    ELSE Undefined

\* A matchID that is falsy (the empty string) gives undefined.
NamespacedPeerID(gameName, matchID) ==
    IF matchID # "" THEN "boardgameio-" \o gameName \o "-matchid-" \o matchID
    ELSE Undefined

\* this.emit(data): the emit-path installed by the last connect() that
\* installed one.
Emit(w, t, data) ==
    LET e == w.tr[t].emit
        w1 == [w EXCEPT !.ev.emits = Append(@, [t |-> t, via |-> e, data |-> data])]
    IN  IF e.kind = "host" THEN ProcessAction(w1, e.id, data)
        ELSE SendToHost(w1, e.id, data)

RequestSync(w, t) ==
    IF w.tr[t].emit = NoEmit THEN w
    ELSE Emit(w, t, SyncAction(w.tr[t].matchID, w.tr[t].playerID,
                               w.tr[t].credentials))

DoSendAction(w, t) ==
    IF w.tr[t].emit = NoEmit THEN w
    ELSE Emit(w, t, UpdateAction(w.tr[t].state, w.tr[t].matchID,
                                 w.tr[t].playerID))

DoSendChatMessage(w, t, matchID) ==
    IF w.tr[t].emit = NoEmit THEN w
    ELSE Emit(w, t, ChatAction(matchID, w.tr[t].credentials))

\* A connection as the Host's registry sees it: the DataConnection and the
\* metadata its dialer gave.
ConnReg(w, k) ==
    [id |-> k, playerID |-> w.conns[k].metadata, throws |-> FALSE]

\* The listening peer that holds a name, if any: the PeerJS server gives an
\* id to one peer at a time.
Listener(ps, name) ==
    {p \in 1..Len(ps) : /\ ps[p].name = name
                        /\ ps[p].listening
                        /\ ~ps[p].destroyed}

NewPeer(w, t, name, hostID, metadata) ==
    [owner |-> t, name |-> name, hostID |-> hostID, metadata |-> metadata,
     destroyed |-> FALSE, open |-> FALSE,
     listening |-> (name # Undefined /\ Listener(w.peers, name) = {})]

\* A connection both ends have left, and a destroyed peer: nothing reads
\* their fields again.
DeadConn == [peer |-> NoPeer, target |-> Undefined, metadata |-> "",
             hostPeer |-> NoPeer, cstate |-> "closed", hstate |-> "closed",
             toHost |-> <<>>, toClient |-> <<>>]

DeadPeer(t) == [owner |-> t, name |-> Undefined, hostID |-> Undefined,
                metadata |-> "", destroyed |-> TRUE, open |-> FALSE,
                listening |-> FALSE]

\* The 'close' a Host-side connection emits: host.unregisterClient(client).
\* What either end still sends on the connection is lost.
HostSideClose(w, k) ==
    UnregisterClient([w EXCEPT !.conns[k] = DeadConn],
                     w.conns[k].hostPeer, ConnReg(w, k))

RECURSIVE CloseHostSides(_, _)
CloseHostSides(w, ks) ==
    IF ks = {} THEN w
    ELSE LET k == CHOOSE x \in ks : \A y \in ks : x <= y
         IN  CloseHostSides(HostSideClose(w, k), ks \ {k})

\* The Client's end of a connection closes: the Host's end, if the dial
\* reached it, learns of it later (HostClose).
ClientSideClose(c) ==
    IF c.hstate \in {"accepted", "open"}
    THEN [c EXCEPT !.cstate = "closed", !.toClient = <<>>]
    ELSE DeadConn

\* The peer p once destroyed.  Its 'open' handler keeps hostID and metadata
\* in its closure: they matter only where the handler may still run.
Destroyed(w, p) ==
    IF w.ev.late /\ ~IsHost(w.peers[p].owner) /\ ~w.peers[p].open
    THEN [w.peers[p] EXCEPT !.destroyed = TRUE]
    ELSE DeadPeer(w.peers[p].owner)

RECURSIVE CloseClientSides(_, _)
CloseClientSides(w, ks) ==
    IF ks = {} THEN w
    ELSE LET k == CHOOSE x \in ks : \A y \in ks : x <= y
         IN  CloseClientSides([w EXCEPT !.conns[k] = ClientSideClose(@)],
                              ks \ {k})

\* peer.destroy(): closes the peer's connections (each emits 'close') and
\* leaves the server.
DestroyPeer(w, p) ==
    LET dialed == {k \in 1..Len(w.conns) : w.conns[k].peer = p}
        w1 == CloseClientSides([w EXCEPT !.peers[p] = Destroyed(w, p)], dialed)
        accepted == {k \in 1..Len(w.conns) :
                        /\ w.conns[k].hostPeer = p
                        /\ w.conns[k].hstate \in {"accepted", "open"}}
    IN  CloseHostSides(w1, accepted)

DoDisconnectUnguarded(w, t) ==
    IF w.tr[t].peer = NoPeer THEN [w EXCEPT !.ev.thrown = TRUE]
    ELSE SetConnectionStatus(
             [DestroyPeer(w, w.tr[t].peer) EXCEPT !.tr[t].peer = NoPeer], t, FALSE)

DoDisconnect(w, t) ==
    LET w1 == IF w.tr[t].peer # NoPeer THEN DestroyPeer(w, w.tr[t].peer) ELSE w
    IN  SetConnectionStatus([w1 EXCEPT !.tr[t].peer = NoPeer], t, FALSE)

DoConnectSyncFirst(w, t) ==
    LET hostID == NamespacedPeerID(w.tr[t].gameName, w.tr[t].matchID)
        metadata == w.tr[t].playerID
        p == Len(w.peers) + 1
        w1 == [w EXCEPT !.peers = Append(@, NewPeer(w, t,
                                   IF IsHost(t) THEN hostID ELSE Undefined,
                                   hostID, metadata)),
                        !.tr[t].peer = p]
    IN  IF IsHost(t)
        THEN LET w2 == [w1 EXCEPT
                          !.hosts = (p :> NewHost(t, w.tr[t].matchID)) @@ @,
                          !.tr[t].emit = HostEmit(p)]
                 w3 == RequestSync(w2, t)
                 w4 == RegisterClient(w3, p, [id |-> Loopback,
                                              playerID |-> metadata,
                                              throws |-> FALSE])
             IN  SetConnectionStatus(w4, t, TRUE)
        ELSE SetConnectionStatus(w1, t, TRUE)

DoConnect(w, t) ==
    LET hostID == NamespacedPeerID(w.tr[t].gameName, w.tr[t].matchID)
        metadata == w.tr[t].playerID
        p == Len(w.peers) + 1
        w1 == [w EXCEPT !.peers = Append(@, NewPeer(w, t,
                                   IF IsHost(t) THEN hostID ELSE Undefined,
                                   hostID, metadata)),
                        !.tr[t].peer = p]
    IN  IF IsHost(t)
        THEN LET w2 == [w1 EXCEPT
                          !.hosts = (p :> NewHost(t, w.tr[t].matchID)) @@ @,
                          !.tr[t].emit = HostEmit(p)]
                 w3 == RegisterClient(w2, p, [id |-> Loopback,
                                              playerID |-> metadata,
                                              throws |-> FALSE])
                 w4 == RequestSync(w3, t)
             IN  IF w4.ev.thrown THEN w4 ELSE SetConnectionStatus(w4, t, TRUE)
        ELSE SetConnectionStatus(w1, t, TRUE)

ReconnectWithoutReset(w, t) == DoConnect(w, t)

ResetAndReconnect(w, t) == DoConnect(DoDisconnect(w, t), t)

(***************************************************************************)
(* Steps.                                                                  *)
(***************************************************************************)
RECURSIVE InFlight(_)
InFlight(cs) ==
    IF cs = <<>> THEN 0
    ELSE Len(Head(cs).toHost) + Len(Head(cs).toClient) + InFlight(Tail(cs))

QueuesOK(w) == InFlight(w.conns) <= MaxQueue

\* The P2PHost of a destroyed peer that no emit-path holds is garbage: its
\* peer delivers no event any more and no closure that is still called
\* refers to it.
Collect(w) ==
    [w EXCEPT !.hosts = [h \in DOMAIN w.hosts |->
        IF w.peers[h].destroyed /\ \A t \in Transports : w.tr[t].emit # HostEmit(h)
        THEN NewHost(w.hosts[h].owner, "")
        ELSE w.hosts[h]]]

SameState(w, v) ==
    /\ w.tr = v.tr
    /\ w.peers = v.peers
    /\ w.hosts = v.hosts
    /\ w.conns = v.conns

\* The handler reached no engine, no registration and no connection, and
\* ended normally.
NoEffect(w) ==
    /\ SameState(w, World)
    /\ w.ev.calls = <<>>
    /\ w.ev.sends = <<>>
    /\ w.ev.applied = <<>>
    /\ ~w.ev.thrown

Identity(w, t) ==
    SyncAction(w.tr[t].matchID, w.tr[t].playerID, w.tr[t].credentials)

\* The name and the argument of the operation the handler w was called for.
Op(w, op, arg) == [w EXCEPT !.ev.op = op, !.ev.arg = arg]

\* What the handler w adds to the history of the run: a sendAction of the
\* Client that was dropped, a sync of the Client that the engine of the
\* Host's current P2PHost processed.
Seen(w) ==
    (IF w.ev.op = "sendAction" /\ w.ev.arg = "c" /\ NoEffect(w)
     THEN {"dropped"} ELSE {})
    \cup
    (IF \E i \in 1..Len(w.ev.calls) :
            w.ev.calls[i] = [host |-> w.tr["h"].peer, fn |-> "onSync",
                             arg |-> Identity(w, "c")]
     THEN {"synced"} ELSE {})

Commit(w) ==
    /\ tr' = w.tr
    /\ peers' = w.peers
    /\ hosts' = Collect(w).hosts
    /\ conns' = w.conns
    /\ connects' = connects + (Len(w.peers) - Len(peers))
    /\ ev' = IF ev.on THEN [w.ev EXCEPT !.seen = ev.seen \cup Seen(w)] ELSE ev

Step(w) ==
    /\ QueuesOK(w)
    /\ Commit(w)

Connect(t) ==
    /\ connects < MaxConnects
    /\ Step(DoConnect(World, t))

Disconnect(t) == Step(DoDisconnect(World, t))

UpdateMatchID(t, id) ==
    /\ connects < MaxConnects
    /\ Step(ResetAndReconnect([World EXCEPT !.tr[t].matchID = id], t))

UpdatePlayerID(t, id) ==
    /\ connects < MaxConnects
    /\ Step(ResetAndReconnect([World EXCEPT !.tr[t].playerID = id], t))

UpdateCredentials(t, credentials) ==
    /\ connects < MaxConnects
    /\ Step(ResetAndReconnect([World EXCEPT !.tr[t].credentials = credentials], t))

CallRequestSync(t) == Step(RequestSync(World, t))

\* The application has a move to make while the game is not over.
SendAction(t) ==
    /\ tr[t].state < MaxState
    /\ Step(Op(DoSendAction(World, t), "sendAction", t))

SendChatMessage(t) ==
    Step(DoSendChatMessage(World, t, tr[t].matchID))

\* this.peer.on('open', ...) of a Client's peer p: dial the Host through
\* this.peer, install the emit-path, listen to the connection.
OnPeerOpen(w, p) ==
    LET t == w.peers[p].owner
        w1 == [w EXCEPT !.peers[p].open = TRUE]
    IN  IF w.tr[t].peer = NoPeer
        THEN [w1 EXCEPT !.ev.thrown = TRUE]
        ELSE [w1 EXCEPT
                !.conns = Append(@, [peer |-> w.tr[t].peer,
                                     target |-> w.peers[p].hostID,
                                     metadata |-> w.peers[p].metadata,
                                     hostPeer |-> NoPeer,
                                     cstate |-> "dialing",
                                     hstate |-> "none",
                                     toHost |-> <<>>,
                                     toClient |-> <<>>]),
                !.tr[t].emit = ConnEmit(Len(w.conns) + 1)]

PeerOpen(p) ==
    /\ ~IsHost(peers[p].owner)
    /\ ~peers[p].destroyed
    /\ ~peers[p].open
    /\ Step(OnPeerOpen(World, p))

\* this.peer.on('connection', ...) of the Host's peer p, for the dial k.
OnConnection(w, k, p) ==
    RegisterClient([w EXCEPT !.conns[k].hstate = "accepted",
                             !.conns[k].hostPeer = p],
                   p, ConnReg(w, k))

Dialing(k) ==
    /\ conns[k].cstate = "dialing"
    /\ conns[k].hstate = "none"
    /\ peers[conns[k].peer].open

Connection(k) ==
    /\ Dialing(k)
    /\ \E p \in Listener(peers, conns[k].target) :
          Step(OnConnection(World, k, p))

\* The dial finds nobody listening under the name: the connection never
\* opens.
DialFail(k) ==
    /\ Dialing(k)
    /\ Listener(peers, conns[k].target) = {}
    /\ Step([World EXCEPT !.conns[k] = DeadConn])

OnConnOpenSilent(w, k) ==
    [w EXCEPT !.conns[k].cstate = "open", !.conns[k].hstate = "open"]

\* The data channel opens; on the Client: host.on('open', ...).
OnConnOpen(w, k) ==
    RequestSync([w EXCEPT !.conns[k].cstate = "open",
                          !.conns[k].hstate = "open"],
                w.peers[w.conns[k].peer].owner)

ConnOpen(k) ==
    /\ conns[k].cstate = "dialing"
    /\ conns[k].hstate = "accepted"
    /\ Step(OnConnOpen(World, k))

OnHostDataLast(w, k) ==
    LET q == w.conns[k].toHost
    IN  ProcessAction([w EXCEPT !.conns[k].toHost = SubSeq(q, 1, Len(q) - 1)],
                      w.conns[k].hostPeer, q[Len(q)])

\* client.on('data', ...) on the Host.
OnHostData(w, k) ==
    ProcessAction([w EXCEPT !.conns[k].toHost = Tail(@)],
                  w.conns[k].hostPeer, Head(w.conns[k].toHost))

HostData(k) ==
    /\ conns[k].hstate = "open"
    /\ conns[k].toHost # <<>>
    /\ Step(OnHostData(World, k))

\* host.on('data', ...) on the Client.
OnClientData(w, k) ==
    ClientCallback([w EXCEPT !.conns[k].toClient = Tail(@)],
                   w.peers[w.conns[k].peer].owner, Head(w.conns[k].toClient))

ClientData(k) ==
    /\ conns[k].cstate = "open"
    /\ conns[k].toClient # <<>>
    /\ Step(OnClientData(World, k))

\* client.on('close', ...) on the Host, after the Client's end has closed.
HostClose(k) ==
    /\ conns[k].cstate = "closed"
    /\ conns[k].hstate \in {"accepted", "open"}
    /\ Step(HostSideClose(World, k))

InitTransport(t) ==
    [gameName |-> GameName, matchID |-> "M1", playerID |-> IF IsHost(t) THEN "0" ELSE "1",
     credentials |-> "a", peer |-> NoPeer, emit |-> NoEmit,
     isConnected |-> FALSE, state |-> 0]

Fresh == [tr |-> [t \in Transports |-> InitTransport(t)], peers |-> <<>>,
          hosts |-> <<>>, conns |-> <<>>, ev |-> EmptyEv]

\* The Host has started: the state its connect() leaves.
HostReady == DoConnect(Fresh, "h")

\* Host and Client have started, the dial has opened and the Client has
\* applied the answer to its first sync.
BothReady ==
    OnClientData(OnHostData(OnConnOpen(OnConnection(
        OnPeerOpen(DoConnect(HostReady, "c"), 2), 1, 1), 1), 1), 1)

\* A run starts with both transports just constructed, with the Host
\* started, or with both started.
Init ==
    /\ \E w \in {Fresh, HostReady, BothReady} :
          /\ tr = w.tr
          /\ peers = w.peers
          /\ hosts = w.hosts
          /\ conns = w.conns
    /\ connects = 0
    /\ ev = EmptyEv

Next ==
    \/ \E t \in Transports : Connect(t)
    \/ \E t \in Transports : Disconnect(t)
    \/ \E t \in Transports, id \in MatchIDs : UpdateMatchID(t, id)
    \/ \E t \in Transports, id \in PlayerIDs : UpdatePlayerID(t, id)
    \/ \E t \in Transports, c \in Credentials : UpdateCredentials(t, c)
    \/ \E t \in Transports : CallRequestSync(t)
    \/ \E t \in Transports : SendAction(t)
    \/ \E t \in Transports : SendChatMessage(t)
    \/ \E p \in 1..Len(peers) : PeerOpen(p)
    \/ \E k \in 1..Len(conns) : Connection(k)
    \/ \E k \in 1..Len(conns) : DialFail(k)
    \/ \E k \in 1..Len(conns) : ConnOpen(k)
    \/ \E k \in 1..Len(conns) : HostData(k)
    \/ \E k \in 1..Len(conns) : ClientData(k)
    \/ \E k \in 1..Len(conns) : HostClose(k)

Spec == Init /\ [][Next]_vars

\* A run that starts in w0 and observes the trace of its steps.
Observed(w0) ==
    /\ tr = w0.tr
    /\ peers = w0.peers
    /\ hosts = w0.hosts
    /\ conns = w0.conns
    /\ connects = 0
    /\ ev = [EmptyEv EXCEPT !.on = TRUE]

(***************************************************************************)
(* The P2PHost of a started Host on its own: remote peers connect and      *)
(* close in any order and under any playerID, the engine calls send and    *)
(* sendAll at any time, and the send of a registration may throw.          *)
(***************************************************************************)
\* Connections the Host's peer accepts over a run.
MaxRegs == 3

TheHost == tr["h"].peer

\* The Host's end of an open connection from a remote peer.
RemoteConn(playerID) ==
    [peer |-> NoPeer, target |-> peers[TheHost].name, metadata |-> playerID,
     hostPeer |-> TheHost, cstate |-> "open", hstate |-> "open",
     toHost |-> <<>>, toClient |-> <<>>]

\* peer.on('connection', ...): host.registerClient(client).
HRegister(playerID, throws) ==
    /\ Len(conns) < MaxRegs
    /\ LET k == Len(conns) + 1
           w == [World EXCEPT !.conns = Append(@, RemoteConn(playerID))]
           reg == [id |-> k, playerID |-> playerID, throws |-> throws]
       IN  Commit(Op(RegisterClient(w, TheHost, reg), "registerClient", playerID))

\* client.on('close', ...): host.unregisterClient(client).
HUnregister(k) ==
    /\ conns[k].hstate = "open"
    /\ Commit(Op(HostSideClose(World, k), "unregisterClient", conns[k].metadata))

\* The engine calls send / sendAll once what it sent before is delivered.
HSend(playerID) ==
    /\ InFlight(conns) = 0
    /\ Commit(Op(MasterSend(World, TheHost, playerID,
                            Push("sync", hosts[TheHost].master.state)),
                 "send", playerID))

HSendAll ==
    /\ InFlight(conns) = 0
    /\ Commit(Op(MasterSendAll(World, TheHost, Push("chat", NoState)),
                 "sendAll", ""))

\* The remote end of connection k receives what the Host sent.
HDeliver(k) ==
    /\ conns[k].toClient # <<>>
    /\ Commit(Op([World EXCEPT !.conns[k].toClient = Tail(@)], "data", ""))

InitHost == Observed(HostReady)

NextHost ==
    \/ \E p \in PlayerIDs, throws \in BOOLEAN : HRegister(p, throws)
    \/ \E k \in 1..Len(conns) : HUnregister(k)
    \/ \E p \in PlayerIDs : HSend(p)
    \/ HSendAll
    \/ \E k \in 1..Len(conns) : HDeliver(k)

SpecHost == InitHost /\ [][NextHost]_vars

(***************************************************************************)
(* A started Host with two open connections from remote peers, which send  *)
(* any data at any time; the 'data' events of a connection arrive in the   *)
(* order its channel delivers them.                                        *)
(***************************************************************************)
\* Data sent by the remote peers and not yet handled by the Host.
MaxPending == 2

\* The world after the peer of the Host has accepted and opened a
\* connection from a remote peer of the given playerID.
WithRemote(w, playerID) ==
    LET h == w.tr["h"].peer
        k == Len(w.conns) + 1
        w1 == [w EXCEPT !.conns = Append(@,
                 [peer |-> NoPeer, target |-> w.peers[h].name,
                  metadata |-> playerID, hostPeer |-> h, cstate |-> "open",
                  hstate |-> "open", toHost |-> <<>>, toClient |-> <<>>])]
    IN  RegisterClient(w1, h, ConnReg(w1, k))

DataReady == WithRemote(WithRemote(HostReady, "1"), "0")

\* What a remote peer may send: the three actions of ClientAction, for the
\* match of the Host or another, and data with a tag that is none of them.
RemoteData ==
    {UpdateAction(s, m, "1") : s \in 0..(MaxState - 1), m \in MatchIDs}
    \cup {ChatAction("M1", "a")}
    \cup {SyncAction("M1", p, "a") : p \in PlayerIDs}
    \cup {[type |-> "ping", stateID |-> NoState, matchID |-> "M1",
           playerID |-> "1", credentials |-> "a"]}

RECURSIVE Pending(_)
Pending(cs) ==
    IF cs = <<>> THEN 0 ELSE Len(Head(cs).toHost) + Pending(Tail(cs))

\* The remote end of connection k sends a.
DRemoteSend(k, a) ==
    /\ Pending(conns) < MaxPending
    /\ Commit(Op([World EXCEPT !.conns[k].toHost = Append(@, a)],
                 "remoteSend", a))

\* client.on('data', ...) of connection k, once what the Host sent before
\* is delivered.
DData(k) ==
    /\ conns[k].toHost # <<>>
    /\ InFlight(conns) = Pending(conns)
    /\ Commit(Op(OnHostData(World, k), "processAction",
                 [conn |-> k, data |-> Head(conns[k].toHost)]))

InitData == Observed(DataReady)

NextData ==
    \/ \E k \in 1..Len(conns), a \in RemoteData : DRemoteSend(k, a)
    \/ \E k \in 1..Len(conns) : DData(k)
    \/ \E k \in 1..Len(conns) : HDeliver(k)

SpecData == InitData /\ [][NextData]_vars

(***************************************************************************)
(* The transports with a PeerJS that lets a Client's peer, made without an *)
(* id and destroyed before the server has given it one, still reach the    *)
(* server and emit 'open' afterwards.                                      *)
(***************************************************************************)
\* The destroyed peers whose 'open' is still to come.
LatePeers == {p \in 1..Len(peers) : peers[p].destroyed /\ peers[p].metadata # ""}

\* The 'open' event of a destroyed peer: the handler of PeerOpen.
LatePeerOpen(p) ==
    /\ p \in LatePeers
    /\ Step([OnPeerOpen(World, p) EXCEPT !.peers[p] = DeadPeer(peers[p].owner)])

\* The Host has started and the Client has called connect(); its peer has
\* no id yet.
ClientPending == DoConnect(HostReady, "c")

InitLate ==
    /\ \E w \in {HostReady, ClientPending, BothReady} :
          /\ tr = w.tr
          /\ peers = w.peers
          /\ hosts = w.hosts
          /\ conns = w.conns
    /\ connects = 0
    /\ ev = [EmptyEv EXCEPT !.late = TRUE]

NextLate ==
    \/ Next
    \/ \E p \in 1..Len(peers) : LatePeerOpen(p)

SpecLate == InitLate /\ [][NextLate]_vars

(***************************************************************************)
(* A Host and a Client constructed for any game name and any match         *)
(* identifier, the empty one included, each connecting once.               *)
(***************************************************************************)
GameNames == {GameName, "chess"}
AnyMatchIDs == MatchIDs \cup {""}

Named(gh, mh, gc, mc, cc) ==
    [Fresh EXCEPT !.tr["h"].gameName = gh, !.tr["h"].matchID = mh,
                  !.tr["c"].gameName = gc, !.tr["c"].matchID = mc,
                  !.tr["c"].credentials = cc]

NConnect(t) ==
    /\ tr[t].peer = NoPeer
    /\ Step(DoConnect(World, t))

InitName ==
    \E gh \in GameNames, gc \in GameNames, mh \in AnyMatchIDs,
       mc \in AnyMatchIDs, cc \in Credentials :
        Observed(Named(gh, mh, gc, mc, cc))

NextName ==
    \/ \E t \in Transports : NConnect(t)
    \/ \E p \in 1..Len(peers) : PeerOpen(p)
    \/ \E k \in 1..Len(conns) : Connection(k)
    \/ \E k \in 1..Len(conns) : DialFail(k)
    \/ \E k \in 1..Len(conns) : ConnOpen(k)
    \/ \E k \in 1..Len(conns) : HostData(k)
    \/ \E k \in 1..Len(conns) : ClientData(k)

SpecName == InitName /\ [][NextName]_vars

(***************************************************************************)
(* A started Host and a Client that connects once: no disconnect and no    *)
(* identity update.  Both applications make moves, chat and ask for a sync  *)
(* at any time.  The event loops of both ends deliver the data that has    *)
(* arrived on an open connection.                                          *)
(***************************************************************************)
LConnect ==
    /\ tr["c"].peer = NoPeer
    /\ Connect("c")

InitLive == Observed(HostReady)

NextLive ==
    \/ LConnect
    \/ \E t \in Transports : SendAction(t)
    \/ \E t \in Transports : SendChatMessage(t)
    \/ \E t \in Transports : CallRequestSync(t)
    \/ \E p \in 1..Len(peers) : PeerOpen(p)
    \/ \E k \in 1..Len(conns) : Connection(k)
    \/ \E k \in 1..Len(conns) : ConnOpen(k)
    \/ \E k \in 1..Len(conns) : HostData(k)
    \/ \E k \in 1..Len(conns) : ClientData(k)

SpecLive ==
    /\ InitLive
    /\ [][NextLive]_vars
    /\ WF_vars(\E k \in 1..Len(conns) : HostData(k))
    /\ WF_vars(\E k \in 1..Len(conns) : ClientData(k))

(***************************************************************************)
(* Properties.  A property of an operation is stated of its handler's      *)
(* result in every reachable state: the steps above are those results.     *)
(***************************************************************************)
\* sendAction, sendChatMessage and requestSync called on t now.
SendOps(t) ==
    {DoSendAction(World, t), RequestSync(World, t)}
        \cup {DoSendChatMessage(World, t, m) : m \in MatchIDs}

\* The connections a peer of transport t dialed that are open at its end.
OpenDials(t) ==
    {k \in 1..Len(conns) : /\ conns[k].cstate = "open"
                           /\ peers[conns[k].peer].owner = t}

\* What an identity update leaves: the peer held before is destroyed, a new
\* peer made under the new identity is held, the status is connected; on
\* the Host the emit-path is the new P2PHost and the one emit of the
\* handler is a sync of the new identity, which the new engine processed.
Reconnected(t, w0, w) ==
    LET p == w.tr[t].peer
        sync == Identity(w0, t)
    IN  /\ w.peers[tr[t].peer].destroyed
        /\ p = Len(peers) + 1
        /\ ~w.peers[p].destroyed
        /\ w.peers[p].hostID = NamespacedPeerID(w0.tr[t].gameName, w0.tr[t].matchID)
        /\ w.peers[p].metadata = w0.tr[t].playerID
        /\ Identity(w, t) = sync
        /\ w.tr[t].isConnected
        /\ IsHost(t) =>
              /\ w.peers[p].name = w.peers[p].hostID
              /\ w.tr[t].emit = HostEmit(p)
              /\ w.hosts[p].matchID = w0.tr[t].matchID
              /\ w.ev.emits = <<[t |-> t, via |-> HostEmit(p), data |-> sync]>>
              /\ \E i \in 1..Len(w.ev.calls) :
                    w.ev.calls[i] = [host |-> p, fn |-> "onSync", arg |-> sync]
        /\ ~IsHost(t) =>
              /\ w.peers[p].name = Undefined
              /\ w.ev.emits = <<>>

\* updateMatchID, updatePlayerID and updateCredentials called on t now, with
\* any value: each leaves t reconnected under the identity with that value.
Updated(t) ==
    LET Run(w0) == Reconnected(t, w0, ResetAndReconnect(w0, t))
    IN  /\ \A id \in MatchIDs : Run([World EXCEPT !.tr[t].matchID = id])
        /\ \A id \in PlayerIDs : Run([World EXCEPT !.tr[t].playerID = id])
        /\ \A c \in Credentials : Run([World EXCEPT !.tr[t].credentials = c])

\* The connections whose data channel may open now.
Opening == {k \in 1..Len(conns) : /\ conns[k].cstate = "dialing"
                                  /\ conns[k].hstate = "accepted"}

\* C1: after updateMatchID, updatePlayerID or updateCredentials on a
\* transport that holds a peer, the peer held before is destroyed and the
\* transport is connected again (Host) or dialing again (Client) under the
\* new identity; the Host issues a sync of the new identity at once, and a
\* Client issues a sync of its identity when a dial of its opens (on that
\* connection, when it is the emit-path).
C1_ReconnectAndSync ==
    /\ \A t \in Transports : tr[t].peer # NoPeer => Updated(t)
    /\ \A k \in Opening :
          LET t == peers[conns[k].peer].owner
              w == OnConnOpen(World, k)
              sync == Identity(World, t)
          IN  /\ w.ev.emits = <<[t |-> t, via |-> tr[t].emit, data |-> sync]>>
              /\ tr[t].emit = ConnEmit(k) => w.conns[k].toHost = <<sync>>

\* C1 witness: the Client took a new identity, its new dial has opened and
\* the sync of the new identity is on its way to the Host.
C1_Witness ==
    /\ Identity(World, "c") # Identity(Fresh, "c")
    /\ tr["c"].emit.kind = "conn"
    /\ LET k == tr["c"].emit.id
       IN  /\ conns[k].peer = tr["c"].peer
           /\ conns[k].cstate = "open"
           /\ conns[k].toHost = <<Identity(World, "c")>>

\* C2: while the transport holds no peer (after disconnect() and before the
\* next connect()), sendAction, sendChatMessage and requestSync reach no
\* engine, send on no connection and apply no push to the local state.
C2_EmitPathCleared ==
    \A t \in Transports : tr[t].peer = NoPeer =>
        \A w \in SendOps(t) : NoEffect(w)

\* C3: while no dial of a Client is open, its sendAction, sendChatMessage
\* and requestSync are dropped: no exception, nothing queued on any
\* connection, nothing handed to a P2PHost.
C3_DroppedBeforeDial ==
    \A t \in Transports : (~IsHost(t) /\ OpenDials(t) = {}) =>
        \A w \in SendOps(t) : NoEffect(w)

\* C3 witness: the Client's emit-path is installed on a connection that is
\* still dialing.
C3_Witness ==
    /\ tr["c"].emit.kind = "conn"
    /\ conns[tr["c"].emit.id].cstate = "dialing"
    /\ OpenDials("c") = {}

\* The Client's local state is the state of the Host's engine.
Converged == tr["c"].state = hosts[TheHost].master.state

\* C4: once a dial of the Client is open (with no disconnect and no
\* identity update after it), the Host's engine eventually processes a
\* sync of the Client and the Client's local state eventually equals the
\* state of the Host's engine.
C4_SyncThenConverge ==
    (OpenDials("c") # {}) ~> ("synced" \in ev.seen /\ Converged)

\* C4 witness: the Client's sendAction was dropped before its dial opened,
\* the Host moved on meanwhile, and after the sync the Client has the
\* Host's state.
C4_Witness ==
    /\ OpenDials("c") # {}
    /\ ev.seen = {"dropped", "synced"}
    /\ hosts[TheHost].master.state > 0
    /\ Converged

RegIds(clients) == {clients[i].id : i \in 1..Len(clients)}

\* The connections the peer of host h accepted and that have not closed.
Accepted(h) ==
    {k \in 1..Len(conns) : /\ conns[k].hostPeer = h
                           /\ conns[k].hstate \in {"accepted", "open"}}

\* C5: in every P2PHost the registrations made for connections are exactly
\* the connections its peer accepted and that have not closed, each once.
C5_RegistryIsOpenConnections ==
    \A h \in DOMAIN hosts :
        /\ RegIds(hosts[h].clients) \ {Loopback} = Accepted(h)
        /\ Cardinality(RegIds(hosts[h].clients)) = Len(hosts[h].clients)

\* C5 witness: one connection has been accepted and closed again, another
\* is registered beside the loopback.
C5_Witness ==
    /\ \E k \in 1..Len(conns) : conns[k] = DeadConn
    /\ \E h \in DOMAIN hosts : Accepted(h) # {}

\* How many times the fan-out of the last step called send on registration id.
SentTo(id) ==
    Cardinality({i \in 1..Len(ev.sends) :
                    ev.sends[i] = [host |-> TheHost, reg |-> id]})

\* The fan-out of the last step called send once on each registration of
\* ids and on no other, and what it sent is what these registrations got:
\* the connections one payload each, the loopback one clientCallback.
DeliveredTo(ids) ==
    /\ \A id \in ids : SentTo(id) = 1
    /\ \A i \in 1..Len(ev.sends) : ev.sends[i].reg \in ids
    /\ \A k \in 1..Len(conns) : Len(conns[k].toClient) = IF k \in ids THEN 1 ELSE 0
    /\ Len(ev.applied) = IF Loopback \in ids THEN 1 ELSE 0

\* The registrations of the Host under the playerID p.
RegsOf(p) ==
    {hosts[TheHost].clients[i].id :
        i \in {j \in 1..Len(hosts[TheHost].clients) :
                  hosts[TheHost].clients[j].playerID = p}}

C8_FailureIsolated ==
    ev.op \in {"send", "sendAll"} =>
        /\ ~ev.thrown
        /\ \A id \in (IF ev.op = "send" THEN RegsOf(ev.arg)
                       ELSE RegIds(hosts[TheHost].clients)) : SentTo(id) = 1

\* C9: disconnect() never throws, leaves no peer and the status false, and
\* a second disconnect() changes nothing; on a transport that holds no
\* peer it changes nothing at all.
C9_DisconnectIdempotent ==
    \A t \in Transports :
        LET w1 == DoDisconnect(World, t)
            w2 == DoDisconnect(w1, t)
        IN  /\ ~w1.ev.thrown /\ ~w2.ev.thrown
            /\ w1.tr[t].peer = NoPeer /\ ~w1.tr[t].isConnected
            /\ SameState(w2, w1)
            /\ tr[t].peer = NoPeer => SameState(w1, World)

\* C9 witness: a transport that was connected holds no peer any more.
C9_Witness ==
    \E t \in Transports :
        /\ tr[t].peer = NoPeer
        /\ \E p \in 1..Len(peers) : peers[p].owner = t /\ peers[p].destroyed

\* C10: a Client reports the connected status only once a dial of its
\* current peer has opened.
C10_ConnectedOnlyAfterDial ==
    \A t \in Transports : (~IsHost(t) /\ tr[t].isConnected) =>
        \E k \in OpenDials(t) : conns[k].peer = tr[t].peer

\* C11: a connect() of the Host, in any state, registers the loopback
\* before it issues the sync: within the call the new engine is told the
\* Host's player is connected, then processes the sync of the Host's
\* identity, and its answer is applied to the Host's local state through
\* the loopback; the call ends normally with the status connected.
C11_HostConnectSyncsThroughLoopback ==
    LET w == DoConnect(World, "h")
        p == w.tr["h"].peer
        me == tr["h"].playerID
        answer == Push("sync", w.hosts[p].master.state)
    IN  /\ p = Len(peers) + 1
        /\ w.hosts[p].clients =
              <<[id |-> Loopback, playerID |-> me, throws |-> FALSE]>>
        /\ w.ev.calls =
              <<[host |-> p, fn |-> "onConnectionChange",
                 arg |-> [matchID |-> tr["h"].matchID, playerID |-> me,
                          isConnected |-> TRUE]],
                [host |-> p, fn |-> "onSync", arg |-> Identity(World, "h")]>>
        /\ w.ev.sends = <<[host |-> p, reg |-> Loopback]>>
        /\ w.ev.applied = <<[t |-> "h", data |-> answer]>>
        /\ w.tr["h"].state = w.hosts[p].master.state
        /\ w.tr["h"].isConnected
        /\ ~w.ev.thrown
        /\ w.conns = conns

\* C11 witness: the Host has connected again under another match after a
\* move that the Client has applied; the sync of the new connect() has put
\* the new engine's state in the Host's local state.
C11_Witness ==
    /\ tr["h"].matchID = "M2"
    /\ tr["h"].isConnected
    /\ tr["h"].emit = HostEmit(TheHost)
    /\ hosts[TheHost].master.connected[tr["h"].playerID]
    /\ tr["c"].state = 1
    /\ tr["h"].state = 0
    /\ hosts[TheHost].master.state = 0

\* The calls of the last step to the engine entry points of processAction.
Dispatched(fn, a) == ev.calls = <<[host |-> TheHost, fn |-> fn, arg |-> a]>>

\* C12: processAction hands an action to the one engine entry of its tag,
\* with the action as it came; data of any other tag reaches no engine
\* entry; the registrations stay as they were.
C12_DispatchByTag ==
    ev.op = "processAction" =>
        /\ LET a == ev.arg.data
           IN  CASE a.type = "update" -> Dispatched("onUpdate", a)
                 [] a.type = "chat" -> Dispatched("onChatMessage", a)
                 [] a.type = "sync" -> Dispatched("onSync", a)
                 [] OTHER -> ev.calls = <<>> /\ ev.sends = <<>>
        /\ hosts[TheHost].clients = DataReady.hosts[TheHost].clients

\* C12 witness: after an update that the engine accepted, data of an
\* unknown tag has been handled.
C12_Witness ==
    /\ ev.op = "processAction"
    /\ ev.arg.data.type = "ping"
    /\ hosts[TheHost].master.state = 1

\* This step is the 'data' handler of connection k: it takes the oldest
\* data of k and of no other connection, and what reaches the engine in it
\* is that data.
HandlesOldest(k) ==
    /\ conns[k].toHost # <<>>
    /\ conns'[k].toHost = Tail(conns[k].toHost)
    /\ \A j \in 1..Len(conns) : j # k => conns'[j].toHost = conns[j].toHost
    /\ ev'.op = "processAction"
    /\ ev'.arg = [conn |-> k, data |-> Head(conns[k].toHost)]
    /\ \A i \in 1..Len(ev'.calls) : ev'.calls[i].arg = Head(conns[k].toHost)
    /\ Head(conns[k].toHost).type \in {"update", "chat", "sync"}
          => Len(ev'.calls) = 1

\* C16: data leaves a connection only by its 'data' handler, oldest first
\* and one at a time, and each handler run hands the engine just that data:
\* nothing is reordered, duplicated or lost on the way to the engine.
C16_PerConnectionFIFO ==
    [][/\ \A k \in 1..Len(conns) :
             Len(conns'[k].toHost) < Len(conns[k].toHost) => HandlesOldest(k)
       /\ ev'.op = "processAction" =>
             \E k \in 1..Len(conns) : HandlesOldest(k)]_vars

\* C16 witness: of two different data waiting on connection 1 the older
\* has been handled, the newer still waits.
C16_Witness ==
    /\ ev.op = "processAction"
    /\ ev.arg.conn = 1
    /\ Len(conns[1].toHost) = 1
    /\ conns[1].toHost[1] # ev.arg.data

\* The registrations a call of registerClient / unregisterClient may name:
\* the loopback and the connections, under any playerID.
AnyReg ==
    {[id |-> i, playerID |-> p, throws |-> FALSE] :
        i \in 0..Len(conns), p \in PlayerIDs}

\* The one call the handler w made: the engine is told that the player of
\* reg is connected, or not, in the match of the Host's P2PHost.
NotifiedOnce(w, reg, isConnected) ==
    w.ev.calls = <<[host |-> TheHost, fn |-> "onConnectionChange",
                    arg |-> [matchID |-> hosts[TheHost].matchID,
                             playerID |-> reg.playerID,
                             isConnected |-> isConnected]]>>

\* The registrations of clients other than the one with the id of reg.
Others(clients, reg) == SelectSeq(clients, LAMBDA c : c.id # reg.id)

\* C13: registerClient leaves the registration in the set (once, the
\* others as they were) and tells the engine once that its player is
\* connected in the match of this P2PHost; unregisterClient leaves it out
\* of the set (the others as they were) and tells the engine once that its
\* player is disconnected in the same match.
C13_RegisterNotifiesOnce ==
    \A reg \in AnyReg :
        LET before == hosts[TheHost].clients
            r == RegisterClient(World, TheHost, reg)
            u == UnregisterClient(World, TheHost, reg)
        IN  /\ reg.id \in RegIds(r.hosts[TheHost].clients)
            /\ Len(r.hosts[TheHost].clients) =
                  Len(Others(before, reg)) + 1
            /\ Others(r.hosts[TheHost].clients, reg) = Others(before, reg)
            /\ NotifiedOnce(r, reg, TRUE)
            /\ u.hosts[TheHost].clients = Others(before, reg)
            /\ NotifiedOnce(u, reg, FALSE)

\* C13 witness: a connection has just been unregistered while another of
\* the same playerID stays registered.
C13_Witness ==
    /\ ev.op = "unregisterClient"
    /\ NotifiedOnce([ev |-> ev], [playerID |-> ev.arg], FALSE)
    /\ RegsOf(ev.arg) # {}
    /\ \E k \in 1..Len(conns) : conns[k] = DeadConn

\* The endpoint name of the format boardgameio-<gameName>-matchid-<matchID>.
EndpointName(gameName, matchID) ==
    "boardgameio-" \o gameName \o "-matchid-" \o matchID

\* The peer p of the Host and the peer q of the Client use the name of the
\* format for the game and match of the Host: p holds it, q dials it, and
\* a dial of q that is under way finds p when p listens.
SameEndpoint(p, q) ==
    LET name == EndpointName(tr["h"].gameName, tr["h"].matchID)
    IN  /\ peers[p].name = name
        /\ peers[q].hostID = name
        /\ \A k \in 1..Len(conns) : conns[k].peer = q =>
              /\ conns[k].target = name
              /\ (Dialing(k) /\ peers[p].listening)
                    => p \in Listener(peers, conns[k].target)

HostPeers == {p \in 1..Len(peers) : peers[p].owner = "h"}
ClientPeers == {q \in 1..Len(peers) : peers[q].owner = "c"}
SameMatch ==
    /\ tr["h"].gameName = tr["c"].gameName
    /\ tr["h"].matchID = tr["c"].matchID

\* C14 as claimed: for every game name and every match identifier, a Host
\* and a Client of the same game and match use the same endpoint name, of
\* the format boardgameio-<gameName>-matchid-<matchID>.
C14_SameEndpointName ==
    SameMatch => \A p \in HostPeers, q \in ClientPeers : SameEndpoint(p, q)

\* C14 amended: the same for every game name and every match identifier
\* that is not empty.
C14_SameEndpointNameNonEmpty ==
    (SameMatch /\ tr["h"].matchID # "") =>
        \A p \in HostPeers, q \in ClientPeers : SameEndpoint(p, q)

\* C14 witness: a Client of game "chess" and match "M2" has an open
\* connection to the Host of that game and match.
C14_Witness ==
    /\ SameMatch
    /\ tr["h"].gameName = "chess"
    /\ tr["h"].matchID = "M2"
    /\ \E k \in OpenDials("c") :
          /\ conns[k].hostPeer = TheHost
          /\ conns[k].target = "boardgameio-chess-matchid-M2"

\* The peers made by the connect() calls of transport t, and the one made
\* by the most recent of them.
PeersOf(t) == {p \in 1..Len(peers) : peers[p].owner = t}
LastPeer(t) == CHOOSE p \in PeersOf(t) : \A q \in PeersOf(t) : q <= p

\* C15: an installed emit-path leads to what the most recent connect() of
\* the transport made under the identity the transport has now: on the
\* Host the P2PHost of that connect() and of the current match, on the
\* Client a connection dialed through the peer of that connect(), to the
\* Host of the current game and match, under the current playerID.
C15_EmitTargetsCurrentSession ==
    \A t \in Transports : tr[t].emit # NoEmit =>
        /\ PeersOf(t) # {}
        /\ IF IsHost(t)
           THEN /\ tr[t].emit = HostEmit(LastPeer(t))
                /\ hosts[LastPeer(t)].matchID = tr[t].matchID
           ELSE /\ tr[t].emit.kind = "conn"
                /\ LET c == conns[tr[t].emit.id]
                   IN  /\ c.peer = LastPeer(t)
                       /\ c.target = NamespacedPeerID(tr[t].gameName,
                                                      tr[t].matchID)
                       /\ c.metadata = tr[t].playerID

\* C17: the P2PHost of a peer that the Host transport has destroyed holds
\* no registration, the loopback included, and no sendAction,
\* sendChatMessage or requestSync makes it send to a registration.
C17_ResetDestroysRegistrations ==
    \A h \in DOMAIN hosts : peers[h].destroyed =>
        /\ hosts[h].clients = <<>>
        /\ \A t \in Transports : \A w \in SendOps(t) :
              \A i \in 1..Len(w.ev.sends) : w.ev.sends[i].host # h

\* C18: the connectivity the engine was last told for a playerID is
\* 'connected' exactly when a registration of the P2PHost carries that
\* playerID.
C18_ConnectivityMatchesRegistrations ==
    \A p \in PlayerIDs :
        hosts[TheHost].master.connected[p] <=> RegsOf(p) # {}

\* The P2PHosts of transport t that can still be handed an action: by the
\* emit-path, or by a connection of a peer that is not destroyed.
Receiving(t) ==
    {h \in DOMAIN hosts : /\ hosts[h].owner = t
                          /\ \/ ~peers[h].destroyed
                             \/ tr[t].emit = HostEmit(h)}

\* C20: a transport has at most one peer that is not destroyed and, on the
\* Host, at most one P2PHost that can be handed actions, and its status is
\* connected exactly when it holds a peer.
C20_OneEndpointPerTransport ==
    \A t \in Transports :
        /\ Cardinality({p \in PeersOf(t) : ~peers[p].destroyed}) <= 1
        /\ Cardinality(Receiving(t)) <= 1
        /\ tr[t].isConnected <=> tr[t].peer # NoPeer

\* C19: the 'open' event of a peer that disconnect() or an identity update
\* has destroyed changes nothing of its transport: it installs no
\* emit-path, dials nothing, emits no action and applies no push.
C19_LateCallbacksHaveNoEffect ==
    \A p \in LatePeers :
        LET w == OnPeerOpen(World, p)
        IN  /\ w.tr = tr
            /\ w.conns = conns
            /\ w.ev.emits = <<>>
            /\ w.ev.applied = <<>>

====
